---- MODULE Spec2Model ----
(***************************************************************************)
(* Model of subscribe/fetch_latest.py: fetching Clash and V2Ray            *)
(* subscription sources, merging them, and uploading the result to a Gist. *)
(*                                                                         *)
(* Python values are modelled as follows.                                  *)
(*   - a str used only for equality and truthiness (a proxy name, a file   *)
(*     name, a secret) is a TLA+ string; "" is the empty str;              *)
(*   - a str that is split, stripped, searched or sorted (a subscription   *)
(*     payload) is a sequence of character codes;                          *)
(*   - a dict is a record / function over its keys;                        *)
(*   - None is the record None; a YAML list is PyList(items).              *)
(* The three emoji group labels of the source cannot be written in a TLA+  *)
(* string; they are written as their ASCII translations.                   *)
(***************************************************************************)
EXTENDS Integers, Sequences, FiniteSets, TLC

\* ------------------------------------------------------------- bounds
MaxConfigs == 2          \* configs passed to merge_clash_configs
MaxProxies == 1          \* records of an enumerated config
MaxContents == 2         \* payloads passed to merge_v2ray_subscriptions
NumClashSources == 2     \* len(CLASH_SOURCES), 7 in the source
NumV2raySources == 1     \* len(V2RAY_SOURCES), 3 in the source
BlockLen == 30           \* records of each of the two large configs

\* ---------------------------------------------------------- constants
SelectCap == 50          \* all_proxies[:50]

VARIABLES
    configs,             \* argument of merge_clash_configs
    merge_result,        \* its outcome: not called yet, returned, or raised
    contents,            \* argument of merge_v2ray_subscriptions
    v2ray_result,        \* its outcome: not called yet, or returned
    \* ---- one run of main()
    GIST_PAT,            \* os.environ.get("GIST_PAT", "")
    GIST_LINK,           \* os.environ.get("GIST_LINK", "")
    clash_source,        \* what each URL of CLASH_SOURCES answers
    v2ray_source,        \* what each URL of V2RAY_SOURCES answers
    pc,                  \* where main() is
    clash_idx,           \* sources of CLASH_SOURCES the first loop has done
    v2ray_idx,           \* sources of V2RAY_SOURCES the second loop has done
    requests,            \* the GET requests sent, in order
    clash_configs,
    merged_clash,        \* outcome of the call of merge_clash_configs
    v2ray_contents,
    merged_v2ray,        \* outcome of the merge of the V2Ray contents
    files,
    gist_posts,          \* the POST requests sent, each with its answer
    exit_status,         \* "running", "exit(0)" or "exit(1)"
    exit_at              \* the statement that ended the run

clash_vars == <<configs, merge_result>>
v2ray_vars == <<contents, v2ray_result>>
env_vars == <<GIST_PAT, GIST_LINK, clash_source, v2ray_source>>
run_vars == <<pc, clash_idx, v2ray_idx, requests, clash_configs, merged_clash,
              v2ray_contents, merged_v2ray, files, gist_posts, exit_status,
              exit_at>>
vars == <<clash_vars, v2ray_vars, env_vars, run_vars>>

\* ------------------------------------------------------ Python values
None == [type |-> "NoneType"]
PyList(items) == [type |-> "list", items |-> items]

Min(a, b) == IF a <= b THEN a ELSE b

\* s[:n]
Take(s, n) == SubSeq(s, 1, Min(Len(s), n))

\* ------------------------------------------------ merge_clash_configs
\* proxy.get('name', '')
get_name(proxy) == IF "name" \in DOMAIN proxy THEN proxy.name ELSE ""

\* if not name or name in seen_names: continue
skip_proxy_unseen_only(name, seen_names) == name = ""
skip_proxy_named_only(name, seen_names) == name \in seen_names
skip_proxy(name, seen_names) == name = "" \/ name \in seen_names

\* the inner loop: for proxy in config['proxies']
RECURSIVE merge_proxies(_, _)
merge_proxies(items, acc) ==
    IF items = <<>> THEN acc
    ELSE LET proxy == Head(items)
             name == get_name(proxy)
         IN  IF skip_proxy(name, acc.seen_names)
             THEN merge_proxies(Tail(items), acc)
             ELSE merge_proxies(Tail(items),
                      [acc EXCEPT !.seen_names = @ \cup {name},
                                  !.all_proxies = Append(@, proxy)])

\* if not config or 'proxies' not in config: continue
skip_config(config) == config = None \/ "proxies" \notin DOMAIN config

\* the outer loop: for config in configs.  Iterating a 'proxies' value
\* that is not a list (None) raises TypeError, which nothing catches.
RECURSIVE merge_configs(_, _)
merge_configs(cs, acc) ==
    IF cs = <<>> \/ acc.raised THEN acc
    ELSE LET config == Head(cs)
         IN  IF skip_config(config) THEN merge_configs(Tail(cs), acc)
             ELSE IF config.proxies.type # "list"
                  THEN [acc EXCEPT !.raised = TRUE]
                  ELSE merge_configs(Tail(cs),
                           merge_proxies(config.proxies.items, acc))

\* [p['name'] for p in ps]
names_of(ps) == [i \in 1..Len(ps) |-> ps[i].name]

AUTO_SELECT == "auto-select"
GLOBAL_DIRECT == "global-direct"
NODE_SELECT == "node-select"

\* all_proxies[:50], the nodes offered by the manual selector
select_nodes_uncapped(all_proxies) == all_proxies
select_nodes(all_proxies) == Take(all_proxies, SelectCap)

\* the members of the url-test group
auto_members_by_index(all_proxies) ==
    [i \in 1..Len(all_proxies) |-> ToString(i)]
auto_members(all_proxies) == names_of(all_proxies)

\* merged_config = {...}
build_config(all_proxies) ==
    [ port                  |-> 7890,
      socks_port            |-> 7891,
      allow_lan             |-> FALSE,
      mode                  |-> "Rule",
      log_level             |-> "info",
      external_controller   |-> "127.0.0.1:9090",
      proxies               |-> all_proxies,
      proxy_groups          |->
        << [ name    |-> NODE_SELECT,
             type    |-> "select",
             proxies |-> <<AUTO_SELECT, GLOBAL_DIRECT>>
                           \o names_of(select_nodes(all_proxies)) ],
           [ name     |-> AUTO_SELECT,
             type     |-> "url-test",
             proxies  |-> auto_members(all_proxies),
             url      |-> "http://www.gstatic.com/generate_204",
             interval |-> 300 ],
           [ name    |-> GLOBAL_DIRECT,
             type    |-> "select",
             proxies |-> <<"DIRECT">> ] >>,
      rules                 |->
        << "DOMAIN-SUFFIX,local,DIRECT",
           "IP-CIDR,127.0.0.0/8,DIRECT",
           "IP-CIDR,172.16.0.0/12,DIRECT",
           "IP-CIDR,192.168.0.0/16,DIRECT",
           "IP-CIDR,10.0.0.0/8,DIRECT",
           "IP-CIDR,17.0.0.0/8,DIRECT",
           "IP-CIDR,100.64.0.0/10,DIRECT",
           "GEOIP,CN,DIRECT",
           "MATCH,node-select" >> ]

\* The call as a whole: the returned dict, or the exception.
merge_clash_configs(cs) ==
    LET acc == merge_configs(cs, [all_proxies |-> <<>>, seen_names |-> {},
                                  raised |-> FALSE])
    IN  IF acc.raised THEN [status |-> "raised"]
        ELSE [status |-> "returned", value |-> build_config(acc.all_proxies)]

\* ------------------------------------------ merge_v2ray_subscriptions
NEWLINE == <<10>>

\* characters str.strip() removes (those of Python's str.isspace below U+0100)
Whitespace == {9, 10, 11, 12, 13, 28, 29, 30, 31, 32, 133, 160}

\* ('vmess://', 'vless://', 'trojan://', 'ss://', 'ssr://', 'hysteria://',
\*  'hysteria2://')
VMESS == <<118, 109, 101, 115, 115, 58, 47, 47>>
VLESS == <<118, 108, 101, 115, 115, 58, 47, 47>>
TROJAN == <<116, 114, 111, 106, 97, 110, 58, 47, 47>>
SS == <<115, 115, 58, 47, 47>>
SSR == <<115, 115, 114, 58, 47, 47>>
HYSTERIA == <<104, 121, 115, 116, 101, 114, 105, 97, 58, 47, 47>>
HYSTERIA2 == <<104, 121, 115, 116, 101, 114, 105, 97, 50, 58, 47, 47>>

line_prefixes == {VMESS, VLESS, TROJAN, SS, SSR, HYSTERIA, HYSTERIA2}

\* s.split('\n'): cur is the piece being read
RECURSIVE split_from(_, _, _)
split_from(s, sep, cur) ==
    IF s = <<>> THEN <<cur>>
    ELSE IF Head(s) = sep THEN <<cur>> \o split_from(Tail(s), sep, <<>>)
         ELSE split_from(Tail(s), sep, Append(cur, Head(s)))

split(s, sep) == split_from(s, sep[1], <<>>)

RECURSIVE lstrip(_)
lstrip(s) ==
    IF s # <<>> /\ Head(s) \in Whitespace THEN lstrip(Tail(s)) ELSE s

RECURSIVE rstrip(_)
rstrip(s) ==
    IF s # <<>> /\ s[Len(s)] \in Whitespace
    THEN rstrip(SubSeq(s, 1, Len(s) - 1)) ELSE s

\* line.strip()
strip(s) == rstrip(lstrip(s))

\* line.startswith(prefix)
startswith(s, prefix) ==
    Len(s) >= Len(prefix) /\ SubSeq(s, 1, Len(prefix)) = prefix

\* the order of str: by code point, a proper prefix first
RECURSIVE str_less(_, _)
str_less(a, b) ==
    IF b = <<>> THEN FALSE
    ELSE IF a = <<>> THEN TRUE
    ELSE IF Head(a) # Head(b) THEN Head(a) < Head(b)
    ELSE str_less(Tail(a), Tail(b))

\* sorted(list(all_lines))
RECURSIVE sorted(_)
sorted(S) ==
    IF S = {} THEN <<>>
    ELSE LET m == CHOOSE x \in S : \A y \in S : x = y \/ str_less(x, y)
         IN  <<m>> \o sorted(S \ {m})

\* sep.join(parts)
RECURSIVE join(_, _)
join(sep, parts) ==
    IF parts = <<>> THEN <<>>
    ELSE IF Len(parts) = 1 THEN parts[1]
    ELSE parts[1] \o sep \o join(sep, Tail(parts))

\* line = line.strip()
strip_line_left_only(line) == lstrip(line)
strip_line(line) == strip(line)

\* the inner loop: for line in content.split('\n')
RECURSIVE add_lines(_, _)
add_lines(lines, all_lines) ==
    IF lines = <<>> THEN all_lines
    ELSE LET line == strip_line(Head(lines))
         IN  IF line # <<>> /\ \E prefix \in line_prefixes : startswith(line, prefix)
             THEN add_lines(Tail(lines), all_lines \cup {line})
             ELSE add_lines(Tail(lines), all_lines)

\* the outer loop: for content in contents
RECURSIVE collect_lines(_, _)
collect_lines(cs, all_lines) ==
    IF cs = <<>> THEN all_lines
    ELSE IF Head(cs) = <<>> THEN collect_lines(Tail(cs), all_lines)
         ELSE collect_lines(Tail(cs), add_lines(split(Head(cs), NEWLINE), all_lines))

merge_v2ray_subscriptions(cs) == join(NEWLINE, sorted(collect_lines(cs, {})))

\* ------------------------------------------------------------ base64
PAD == 61

\* the value of a character of the base64 alphabet, 64 for any other
b64_value(c) ==
    IF c >= 65 /\ c <= 90 THEN c - 65
    ELSE IF c >= 97 /\ c <= 122 THEN c - 71
    ELSE IF c >= 48 /\ c <= 57 THEN c + 4
    ELSE IF c = 43 THEN 62
    ELSE IF c = 47 THEN 63
    ELSE 64

b64_char(v) ==
    IF v <= 25 THEN v + 65
    ELSE IF v <= 51 THEN v + 71
    ELSE IF v <= 61 THEN v - 4
    ELSE IF v = 62 THEN 43
    ELSE 47

\* base64.b64encode(data)
RECURSIVE b64encode(_)
b64encode(data) ==
    IF data = <<>> THEN <<>>
    ELSE IF Len(data) = 1
    THEN << b64_char(data[1] \div 4), b64_char((data[1] % 4) * 16), PAD, PAD >>
    ELSE IF Len(data) = 2
    THEN << b64_char(data[1] \div 4),
            b64_char((data[1] % 4) * 16 + data[2] \div 16),
            b64_char((data[2] % 16) * 4), PAD >>
    ELSE << b64_char(data[1] \div 4),
            b64_char((data[1] % 4) * 16 + data[2] \div 16),
            b64_char((data[2] % 16) * 4 + data[3] \div 64),
            b64_char(data[3] % 64) >>
         \o b64encode(SubSeq(data, 4, Len(data)))

\* binascii.a2b_base64(s), not strict: characters outside the alphabet are
\* skipped, a complete pad sequence ends the input, an incomplete last
\* quad is an error.  st = [quad_pos, leftchar, pads, out]
RECURSIVE a2b_base64(_, _)
a2b_base64(s, st) ==
    IF s = <<>>
    THEN IF st.quad_pos # 0 THEN [ok |-> FALSE, data |-> <<>>]
         ELSE [ok |-> TRUE, data |-> st.out]
    ELSE LET c == Head(s)
             v == b64_value(c)
         IN  IF c = PAD
             THEN IF st.quad_pos >= 2 /\ st.quad_pos + st.pads + 1 >= 4
                  THEN [ok |-> TRUE, data |-> st.out]
                  ELSE a2b_base64(Tail(s),
                           [st EXCEPT !.pads = IF st.quad_pos >= 2 THEN @ + 1 ELSE @])
             ELSE IF v >= 64 THEN a2b_base64(Tail(s), st)
             ELSE IF st.quad_pos = 0
             THEN a2b_base64(Tail(s),
                      [st EXCEPT !.pads = 0, !.quad_pos = 1, !.leftchar = v])
             ELSE IF st.quad_pos = 1
             THEN a2b_base64(Tail(s),
                      [st EXCEPT !.pads = 0, !.quad_pos = 2,
                                 !.out = Append(@, st.leftchar * 4 + v \div 16),
                                 !.leftchar = v % 16])
             ELSE IF st.quad_pos = 2
             THEN a2b_base64(Tail(s),
                      [st EXCEPT !.pads = 0, !.quad_pos = 3,
                                 !.out = Append(@, st.leftchar * 16 + v \div 4),
                                 !.leftchar = v % 4])
             ELSE a2b_base64(Tail(s),
                      [st EXCEPT !.pads = 0, !.quad_pos = 0,
                                 !.out = Append(@, st.leftchar * 64 + v),
                                 !.leftchar = 0])

\* base64.b64decode(content).decode('utf-8'): a str with a character
\* outside ASCII is refused, and so (in this model) are decoded bytes
\* outside ASCII
b64decode_utf8(content) ==
    IF \E i \in 1..Len(content) : content[i] >= 128
    THEN [ok |-> FALSE, data |-> <<>>]
    ELSE LET r == a2b_base64(content, [quad_pos |-> 0, leftchar |-> 0,
                                       pads |-> 0, out |-> <<>>])
         IN  IF r.ok /\ \E i \in 1..Len(r.data) : r.data[i] >= 128
             THEN [ok |-> FALSE, data |-> <<>>]
             ELSE r

\* pat in s
contains(s, pat) ==
    \E i \in 1..(Len(s) - Len(pat) + 1) : SubSeq(s, i, i + Len(pat) - 1) = pat

\* ------------------------------------------------------------ fetching
\* What a URL answers: the request times out, the status is not 2xx, or the
\* body arrives.  For a Clash source the body is given by the document
\* yaml.safe_load makes of it; for a V2Ray source by its text.
TIMEOUT == [kind |-> "timeout"]
HTTP_ERROR == [kind |-> "http_error"]

\* fetch_clash_yaml(url), given the answer of the URL
fetch_clash_yaml(answer) ==
    IF answer.kind # "ok" THEN None
    ELSE LET config == answer.doc
         IN  IF config # None /\ "proxies" \in DOMAIN config THEN config ELSE None

\* fetch_v2ray_subscription(url), given the answer of the URL
fetch_v2ray_subscription(answer) ==
    IF answer.kind # "ok" THEN <<>>
    ELSE LET content == strip(answer.text)
             decoded == b64decode_utf8(content)
         IN  IF /\ decoded.ok
                /\ decoded.data # <<>>
                /\ \E scheme \in {VMESS, VLESS, TROJAN, SS} :
                       contains(decoded.data, scheme)
             THEN decoded.data
             ELSE content

\* get(url, timeout=timeout): one request
get_with_retry(sent, url) == Append(Append(sent, url), url)
get(sent, url) == Append(sent, url)

\* -------------------------------------------------------- upload_to_gist
SLASH == <<47>>

\* the text yaml.dump makes of a document: never empty
yaml_dump(doc) == [yaml |-> doc]
Text(t) == [text |-> t]

\* if content:
truthy(content) == "yaml" \in DOMAIN content \/ content.text # <<>>

\* if not GIST_PAT or not GIST_LINK: return False
secrets_missing_ignored(pat, link) == FALSE
secrets_missing(pat, link) == pat = <<>> \/ link = <<>>

\* response.raise_for_status() passes
status_ok_unchecked(answer) == answer # "timeout"
status_ok(answer) == answer = "200"

\* What upload_to_gist(files) does when the API answers `answer`:
\* the request it sends, if any, and the value it returns.
upload_to_gist(fs, answer) ==
    IF secrets_missing(GIST_PAT, GIST_LINK)
    THEN [sent |-> <<>>, success |-> FALSE]
    ELSE LET parts == split(GIST_LINK, SLASH)
             gist_files == { filename \in DOMAIN fs : truthy(fs[filename]) }
         IN  IF Len(parts) # 2 THEN [sent |-> <<>>, success |-> FALSE]
             ELSE IF gist_files = {} THEN [sent |-> <<>>, success |-> FALSE]
             ELSE [ sent |-> << [ gist_id |-> parts[2],
                                  token |-> GIST_PAT,
                                  files |-> [f \in gist_files |-> fs[f]],
                                  answer |-> answer ] >>,
                    success |-> status_ok(answer) ]

\* ---------------------------------------------------------------- main
ClashUrl(i) == <<"clash", i>>
V2rayUrl(i) == <<"v2ray", i>>

\* if not clash_configs:
no_clash_config_unless_all(cs) == Len(cs) < NumClashSources
no_clash_config_never(cs) == FALSE
no_clash_config(cs) == cs = <<>>

\* for idx, url in enumerate(CLASH_SOURCES, 1): one iteration.
\* len(config.get('proxies', [])) raises TypeError when 'proxies' is None.
FetchClash ==
    /\ pc = "fetch_clash"
    /\ clash_idx < NumClashSources
    /\ LET i == clash_idx + 1
           config == fetch_clash_yaml(clash_source[i])
       IN  /\ requests' = get(requests, ClashUrl(i))
           /\ clash_idx' = i
           /\ IF config = None
              THEN UNCHANGED <<clash_configs, pc, exit_status, exit_at>>
              ELSE IF config.proxies.type # "list"
              THEN /\ pc' = "done"
                   /\ exit_status' = "exit(1)"
                   /\ exit_at' = "TypeError in the Clash loop"
                   /\ UNCHANGED clash_configs
              ELSE /\ clash_configs' = Append(clash_configs, config)
                   /\ UNCHANGED <<pc, exit_status, exit_at>>
    /\ UNCHANGED <<clash_vars, v2ray_vars, env_vars, v2ray_idx, merged_clash,
                   v2ray_contents, merged_v2ray, files, gist_posts>>

\* if not clash_configs: sys.exit(1)
CheckClashConfigs ==
    /\ pc = "fetch_clash"
    /\ clash_idx = NumClashSources
    /\ IF no_clash_config(clash_configs)
       THEN /\ pc' = "done"
            /\ exit_status' = "exit(1)"
            /\ exit_at' = "Failed to fetch any Clash config"
       ELSE /\ pc' = "merge_clash"
            /\ UNCHANGED <<exit_status, exit_at>>
    /\ UNCHANGED <<clash_vars, v2ray_vars, env_vars, clash_idx, v2ray_idx,
                   requests, clash_configs, merged_clash, v2ray_contents,
                   merged_v2ray, files, gist_posts>>

\* merged_clash = merge_clash_configs(clash_configs);
\* if proxy_count == 0: sys.exit(1)
MergeClash ==
    /\ pc = "merge_clash"
    /\ merged_clash' = merge_clash_configs(clash_configs)
    /\ IF merged_clash'.status = "raised"
       THEN /\ pc' = "done"
            /\ exit_status' = "exit(1)"
            /\ exit_at' = "TypeError in merge_clash_configs"
       ELSE IF Len(merged_clash'.value.proxies) = 0
       THEN /\ pc' = "done"
            /\ exit_status' = "exit(1)"
            /\ exit_at' = "No valid proxies found"
       ELSE /\ pc' = "fetch_v2ray"
            /\ UNCHANGED <<exit_status, exit_at>>
    /\ UNCHANGED <<clash_vars, v2ray_vars, env_vars, clash_idx, v2ray_idx,
                   requests, clash_configs, v2ray_contents, merged_v2ray,
                   files, gist_posts>>

\* for idx, url in enumerate(V2RAY_SOURCES, 1): one iteration
FetchV2ray ==
    /\ pc = "fetch_v2ray"
    /\ v2ray_idx < NumV2raySources
    /\ LET i == v2ray_idx + 1
           content == fetch_v2ray_subscription(v2ray_source[i])
       IN  /\ requests' = get(requests, V2rayUrl(i))
           /\ v2ray_idx' = i
           /\ v2ray_contents' = IF content # <<>>
                                THEN Append(v2ray_contents, content)
                                ELSE v2ray_contents
    /\ UNCHANGED <<clash_vars, v2ray_vars, env_vars, pc, clash_idx,
                   clash_configs, merged_clash, merged_v2ray, files,
                   gist_posts, exit_status, exit_at>>

\* merged_v2ray = ...; files = {...}
BuildFiles ==
    /\ pc = "fetch_v2ray"
    /\ v2ray_idx = NumV2raySources
    /\ LET merged == IF v2ray_contents # <<>>
                     THEN merge_v2ray_subscriptions(v2ray_contents)
                     ELSE <<>>
           clash_yaml == "clash.yaml" :> yaml_dump(merged_clash.value)
       IN  /\ merged_v2ray' = [status |-> "returned", value |-> merged]
           /\ files' = IF merged # <<>>
                       THEN clash_yaml
                            @@ ("v2ray.txt" :> Text(b64encode(merged)))
                            @@ ("quantumult_x.conf" :> Text(merged))
                       ELSE clash_yaml
    /\ pc' = "upload"
    /\ UNCHANGED <<clash_vars, v2ray_vars, env_vars, clash_idx, v2ray_idx,
                   requests, clash_configs, merged_clash, v2ray_contents,
                   gist_posts, exit_status, exit_at>>

\* success = upload_to_gist(files); the run ends, with sys.exit(1) on failure
Upload ==
    /\ pc = "upload"
    /\ \E answer \in {"200", "401", "timeout"} :
          LET r == upload_to_gist(files, answer)
          IN  /\ gist_posts' = gist_posts \o r.sent
              /\ IF r.success
                 THEN exit_status' = "exit(0)" /\ exit_at' = "All done"
                 ELSE exit_status' = "exit(1)" /\ exit_at' = "Upload failed"
    /\ pc' = "done"
    /\ UNCHANGED <<clash_vars, v2ray_vars, env_vars, clash_idx, v2ray_idx,
                   requests, clash_configs, merged_clash, v2ray_contents,
                   merged_v2ray, files>>

\* ----------------------------------------------------------- inputs
NotCalled == [status |-> "not called"]

A == <<97>>
B == <<98>>
SPACE == <<32>>
CR == <<13>>

\* ---- of a run
ClashAnswers ==
    { TIMEOUT,
      HTTP_ERROR,
      [kind |-> "ok", doc |-> [port |-> 7890]],
      [kind |-> "ok", doc |-> [proxies |-> None]],
      [kind |-> "ok", doc |-> [proxies |-> PyList(<< [server |-> 1] >>)]],
      [kind |-> "ok", doc |-> [proxies |-> PyList(<< [name |-> "1", server |-> 1] >>)]],
      [kind |-> "ok", doc |-> [proxies |-> PyList(<< [name |-> "1", server |-> 2],
                                                      [name |-> "2", server |-> 2] >>)]] }

V2rayAnswers ==
    { TIMEOUT,
      [kind |-> "ok", text |-> <<>>],
      [kind |-> "ok", text |-> <<104, 116, 116, 112, 58, 47, 47, 97>>],
      [kind |-> "ok", text |-> SPACE \o VMESS \o A \o NEWLINE],
      [kind |-> "ok", text |-> b64encode(join(NEWLINE, <<VMESS \o A, SS \o A>>))] }

Secret == <<97>>
Links == { <<>>, <<97>>, <<97, 47, 98>> }

\* the merge functions are not called on their own
IdleClash == configs = <<>> /\ merge_result = NotCalled
IdleV2ray == contents = <<>> /\ v2ray_result = NotCalled

\* main() is not run
IdleRun ==
    /\ GIST_PAT = <<>>
    /\ GIST_LINK = <<>>
    /\ clash_source = <<>>
    /\ v2ray_source = <<>>
    /\ pc = "not started"
    /\ clash_idx = 0
    /\ v2ray_idx = 0
    /\ requests = <<>>
    /\ clash_configs = <<>>
    /\ merged_clash = NotCalled
    /\ v2ray_contents = <<>>
    /\ merged_v2ray = NotCalled
    /\ files = <<>>
    /\ gist_posts = <<>>
    /\ exit_status = "running"
    /\ exit_at = ""

Init ==
    /\ GIST_PAT \in {<<>>, Secret}
    /\ GIST_LINK \in Links
    /\ clash_source \in [1..NumClashSources -> ClashAnswers]
    /\ v2ray_source \in [1..NumV2raySources -> V2rayAnswers]
    /\ pc = "fetch_clash"
    /\ clash_idx = 0
    /\ v2ray_idx = 0
    /\ requests = <<>>
    /\ clash_configs = <<>>
    /\ merged_clash = NotCalled
    /\ v2ray_contents = <<>>
    /\ merged_v2ray = NotCalled
    /\ files = <<>>
    /\ gist_posts = <<>>
    /\ exit_status = "running"
    /\ exit_at = ""
    /\ IdleClash
    /\ IdleV2ray

Next ==
    \/ FetchClash
    \/ CheckClashConfigs
    \/ MergeClash
    \/ FetchV2ray
    \/ BuildFiles
    \/ Upload

Spec == Init /\ [][Next]_vars

\* ---- of a call of merge_clash_configs
\* Node records: without a name, with an empty name, two versions of "1", "2".
ProxyPool ==
    { [server |-> 1],
      [name |-> "", server |-> 1],
      [name |-> "1", server |-> 1],
      [name |-> "1", server |-> 2],
      [name |-> "2", server |-> 1] }

RECURSIVE SeqsUpTo(_, _)
SeqsUpTo(S, n) ==
    IF n = 0 THEN { <<>> }
    ELSE LET shorter == SeqsUpTo(S, n - 1)
         IN  shorter \cup { Append(s, x) : s \in shorter, x \in S }

\* names "a".."a+n-1", all from one source
Block(a, n, server) ==
    [i \in 1..n |-> [name |-> ToString(a + i - 1), server |-> server]]

ConfigPool ==
    { [proxies |-> PyList(ps)] : ps \in SeqsUpTo(ProxyPool, MaxProxies) }
    \cup { [proxies |-> PyList(Block(1, BlockLen, 1))],
           [proxies |-> PyList(Block(BlockLen - 5, BlockLen, 2))],
           [proxies |-> PyList(<< [name |-> "1", server |-> 1],
                                  [name |-> "2", server |-> 1],
                                  [server |-> 2],
                                  [name |-> "1", server |-> 2] >>)],
           [proxies |-> None],
           [port |-> 7890],
           None }

InitClash ==
    /\ configs \in SeqsUpTo(ConfigPool, MaxConfigs)
    /\ merge_result = NotCalled
    /\ IdleV2ray
    /\ IdleRun

CallMergeClashConfigs ==
    /\ merge_result = NotCalled
    /\ merge_result' = merge_clash_configs(configs)
    /\ UNCHANGED <<configs, v2ray_vars, env_vars, run_vars>>

NextClash == CallMergeClashConfigs

SpecClash == InitClash /\ [][NextClash]_vars

\* ---- of a call of merge_v2ray_subscriptions
LinePool ==
    { VMESS \o A, VMESS \o B, VLESS \o A, TROJAN \o A, SS \o A, SSR \o A,
      HYSTERIA \o A, HYSTERIA2 \o A,
      SS,                                        \* a bare prefix
      SPACE \o SPACE \o VMESS \o A \o SPACE \o CR,   \* padded "vmess://a"
      VMESS \o A \o SPACE \o B,                  \* a space inside the line
      <<104, 116, 116, 112, 58, 47, 47, 97>>,
      <<35, 118, 109, 101, 115, 115, 58, 47, 47, 97>>,
      <<86, 109, 101, 115, 115, 58, 47, 47, 97>>,
      <<118, 109, 101, 115, 115, 58, 47, 97>>,
      SPACE }

PayloadPool ==
    LinePool
    \cup { <<>>,
           join(NEWLINE, <<VMESS \o A, VLESS \o A>>),
           join(NEWLINE, <<VLESS \o A, VMESS \o A>>),
           join(NEWLINE, <<VMESS \o A, <<>>, VMESS \o A>>),
           join(NEWLINE, <<SS \o A \o CR, SSR \o A \o CR, HYSTERIA \o A \o CR,
                           HYSTERIA2 \o A \o CR, <<>>>>),
           join(NEWLINE, <<SPACE \o VMESS \o B, <<104, 116, 116, 112, 58, 47, 47, 97>>,
                           TROJAN \o A>>) }

InitV2ray ==
    /\ contents \in SeqsUpTo(PayloadPool, MaxContents)
    /\ v2ray_result = NotCalled
    /\ IdleClash
    /\ IdleRun

CallMergeV2raySubscriptions ==
    /\ v2ray_result = NotCalled
    /\ v2ray_result' = [status |-> "returned",
                        value |-> merge_v2ray_subscriptions(contents)]
    /\ UNCHANGED <<contents, clash_vars, env_vars, run_vars>>

NextV2ray == CallMergeV2raySubscriptions

SpecV2ray == InitV2ray /\ [][NextV2ray]_vars

\* ------------------------------------------------------------ claims
Returned == merge_result.status = "returned"
MergedProxies == merge_result.value.proxies
Groups == merge_result.value.proxy_groups

\* every record of every config that has a node list, in source order
RECURSIVE InputRecords(_)
InputRecords(cs) ==
    IF cs = <<>> THEN <<>>
    ELSE (IF skip_config(Head(cs)) THEN <<>> ELSE Head(cs).proxies.items)
         \o InputRecords(Tail(cs))

\* C1: the 'proxies' list of the returned config holds no two records with
\* the same name.
C1_UniqueNames ==
    Returned =>
        \A i, j \in 1..Len(MergedProxies) :
            i # j => get_name(MergedProxies[i]) # get_name(MergedProxies[j])

C1_Witness ==
    /\ Returned
    /\ Len(MergedProxies) >= 2
    /\ \E i, j \in 1..Len(InputRecords(configs)) :
          /\ i < j
          /\ get_name(InputRecords(configs)[i]) # ""
          /\ get_name(InputRecords(configs)[i]) = get_name(InputRecords(configs)[j])

\* the index in recs of the first record that bears the name of r
FirstIndex(recs, r) ==
    LET same == { i \in 1..Len(recs) : get_name(recs[i]) = get_name(r) }
    IN  CHOOSE i \in same : \A j \in same : i <= j

\* C2: the merged list is exactly the records with a non-empty name not seen
\* earlier, in order of first appearance: each merged record is the first
\* input record bearing its name, the merged records follow the order of
\* those first appearances, no merged record has an empty or missing name,
\* and every non-empty input name is in the merged list.
C2_FirstSeenWins ==
    Returned =>
        LET recs == InputRecords(configs)
            out == MergedProxies
        IN  /\ \A k \in 1..Len(out) :
                  /\ get_name(out[k]) # ""
                  /\ \E i \in 1..Len(recs) : get_name(recs[i]) = get_name(out[k])
                  /\ out[k] = recs[FirstIndex(recs, out[k])]
            /\ \A k \in 1..(Len(out) - 1) :
                  FirstIndex(recs, out[k]) < FirstIndex(recs, out[k + 1])
            /\ \A i \in 1..Len(recs) :
                  get_name(recs[i]) # "" =>
                      \E k \in 1..Len(out) : get_name(out[k]) = get_name(recs[i])

\* a later record with a seen name, a record without a name and a record
\* with an empty name were all passed in, and the earlier version was kept
C2_Witness ==
    /\ Returned
    /\ LET recs == InputRecords(configs)
       IN  /\ \E i, j \in 1..Len(recs) :
                 /\ i < j
                 /\ get_name(recs[i]) = "1"
                 /\ get_name(recs[j]) = "1"
                 /\ recs[i] # recs[j]
                 /\ \A h \in 1..(i - 1) : get_name(recs[h]) # "1"
                 /\ \E k \in 1..Len(MergedProxies) : MergedProxies[k] = recs[i]
           /\ \E i \in 1..Len(recs) : "name" \notin DOMAIN recs[i]

Range(s) == { s[i] : i \in 1..Len(s) }

GroupNames == { Groups[g].name : g \in 1..Len(Groups) }

\* C4 as stated: every member of every entry of 'proxy-groups' is the name
\* of a record of 'proxies'.
C4_EveryMemberIsANode ==
    Returned =>
        \A g \in 1..Len(Groups) :
            Range(Groups[g].proxies) \subseteq Range(names_of(MergedProxies))

\* C4, amended: every member of every entry of 'proxy-groups' is the name of
\* a record of 'proxies', the name of another entry of 'proxy-groups', or the
\* built-in DIRECT; the node names of the manual selector are those of the
\* leading records of 'proxies' and those of the url-test group are those of
\* all of them, in order.
C4_MembersResolve ==
    Returned =>
        /\ \A g \in 1..Len(Groups) :
              Range(Groups[g].proxies) \subseteq
                  Range(names_of(MergedProxies)) \cup (GroupNames \ {Groups[g].name})
                      \cup {"DIRECT"}
        /\ \A k \in 3..Len(Groups[1].proxies) :
              Groups[1].proxies[k] = MergedProxies[k - 2].name
        /\ Len(Groups[2].proxies) = Len(MergedProxies)
        /\ \A k \in 1..Len(Groups[2].proxies) :
              Groups[2].proxies[k] = MergedProxies[k].name

C4_Witness ==
    /\ Returned
    /\ Len(MergedProxies) >= 2
    /\ Len(Groups[1].proxies) >= 4
    /\ Len(Groups[2].proxies) >= 2

\* C5: the manual selector lists at most SelectCap node names, however many
\* nodes were merged, and the url-test group lists every merged node.
C5_SelectorCapped ==
    Returned =>
        /\ Len(Groups[1].proxies) - 2 <= SelectCap
        /\ Len(Groups[1].proxies) - 2 = Min(Len(MergedProxies), SelectCap)
        /\ Groups[2].proxies = names_of(MergedProxies)

\* more nodes were merged than the cap admits
C5_Witness ==
    /\ Returned
    /\ Len(MergedProxies) > SelectCap
    /\ Len(Groups[1].proxies) - 2 = SelectCap
    /\ Len(Groups[2].proxies) > SelectCap

\* ---- the URI-list merge
\* the pieces of s between its newlines, in order
PiecesOf(s) ==
    LET cuts == {0, Len(s) + 1} \cup { i \in 1..Len(s) : s[i] = NEWLINE[1] }
        nth(k) == CHOOSE c \in cuts : Cardinality({ d \in cuts : d < c }) = k
    IN  [k \in 1..(Cardinality(cuts) - 1) |->
            SubSeq(s, nth(k - 1) + 1, nth(k) - 1)]

\* l without its leading and trailing whitespace
TrimOf(l) ==
    LET keep == { i \in 1..Len(l) : l[i] \notin Whitespace }
    IN  IF keep = {} THEN <<>>
        ELSE SubSeq(l, CHOOSE i \in keep : \A j \in keep : i <= j,
                       CHOOSE i \in keep : \A j \in keep : i >= j)

\* a precedes b lexicographically
LexLess(a, b) ==
    \E k \in 1..(Min(Len(a), Len(b)) + 1) :
        /\ \A i \in 1..(k - 1) : a[i] = b[i]
        /\ \/ k = Len(a) + 1 /\ k <= Len(b)
           \/ k <= Len(a) /\ k <= Len(b) /\ a[k] < b[k]

HasRecognizedScheme(t) ==
    \E prefix \in line_prefixes :
        \E rest \in {SubSeq(t, Len(prefix) + 1, Len(t))} : t = prefix \o rest

RawLines(cs) == UNION { Range(PiecesOf(cs[i])) : i \in 1..Len(cs) }

\* the trimmed lines, over all payloads, that start with a recognized scheme
Qualifying(cs) == { t \in { TrimOf(l) : l \in RawLines(cs) } : HasRecognizedScheme(t) }

Reverse(s) == [i \in 1..Len(s) |-> s[Len(s) + 1 - i]]

\* the payloads in reverse order, each with its lines in reverse order
Reordered(cs) ==
    Reverse([i \in 1..Len(cs) |-> join(NEWLINE, Reverse(PiecesOf(cs[i])))])

\* C3: the result is the newline-joined, strictly ascending list of exactly
\* the trimmed lines, over all payloads, that start with a recognized scheme
\* prefix (the empty string when there is none), and reordering the payloads
\* and the lines within them does not change it.
C3_SortedQualifyingLines ==
    v2ray_result.status = "returned" =>
        LET out == v2ray_result.value
            lines == PiecesOf(out)
        IN  /\ Qualifying(contents) = {} => out = <<>>
            /\ Qualifying(contents) # {} =>
                  /\ Range(lines) = Qualifying(contents)
                  /\ \A k \in 1..(Len(lines) - 1) : LexLess(lines[k], lines[k + 1])
            /\ merge_v2ray_subscriptions(Reordered(contents)) = out

\* two payloads out of order, with a padded line, a duplicate and a line
\* that does not qualify
C3_Witness ==
    /\ v2ray_result.status = "returned"
    /\ Len(contents) = 2
    /\ Len(PiecesOf(v2ray_result.value)) >= 2
    /\ \E l \in RawLines(contents) : TrimOf(l) # l /\ TrimOf(l) \in Qualifying(contents)
    /\ \E l \in RawLines(contents) : TrimOf(l) # <<>> /\ TrimOf(l) \notin Qualifying(contents)
    /\ \E a \in Range(PiecesOf(contents[1])), b \in Range(PiecesOf(contents[2])) :
          /\ {TrimOf(a), TrimOf(b)} \subseteq Qualifying(contents)
          /\ LexLess(TrimOf(b), TrimOf(a))
    /\ Cardinality(Qualifying(contents)) < Cardinality({ l \in RawLines(contents) : HasRecognizedScheme(TrimOf(l)) })

\* ---- one run of main()
ClashSources == 1..NumClashSources
V2raySources == 1..NumV2raySources

\* what the fetch of a source returns in this run
ClashResult(i) == fetch_clash_yaml(clash_source[i])
V2rayResult(j) == fetch_v2ray_subscription(v2ray_source[j])

\* CLASH_SOURCES followed by V2RAY_SOURCES
AllSources ==
    [k \in 1..(NumClashSources + NumV2raySources) |->
        IF k <= NumClashSources THEN ClashUrl(k) ELSE V2rayUrl(k - NumClashSources)]

IsPrefix(a, b) == Len(a) <= Len(b) /\ a = SubSeq(b, 1, Len(a))

\* the elements of the first n of f(1), f(2), ... that differ from `nothing`
RECURSIVE Kept(_, _, _)
Kept(f(_), n, nothing) ==
    IF n = 0 THEN <<>>
    ELSE Kept(f, n - 1, nothing) \o (IF f(n) = nothing THEN <<>> ELSE <<f(n)>>)

\* a Clash source whose document has a 'proxies' key without a list under it
NullNodeList(i) == ClashResult(i) # None /\ ClashResult(i).proxies.type # "list"

Exited == pc = "done"
MergeRan == merged_clash # NotCalled
MergedCount == Len(merged_clash.value.proxies)

\* every source times out or answers an error status
AllSourcesFail ==
    /\ \A i \in ClashSources : clash_source[i].kind # "ok"
    /\ \A j \in V2raySources : v2ray_source[j].kind # "ok"

\* C6: if every configured source fails, the run exits non-zero and neither
\* a merge nor a publish request happens in it: until it has exited the run
\* is in the Clash loop and can take its next step.
C6_AllFailNoMergeNoPublish ==
    AllSourcesFail =>
        /\ merged_clash = NotCalled
        /\ merged_v2ray = NotCalled
        /\ files = <<>>
        /\ gist_posts = <<>>
        /\ pc \in {"fetch_clash", "done"}
        /\ pc = "fetch_clash" => ENABLED (FetchClash \/ CheckClashConfigs)
        /\ Exited => exit_status = "exit(1)"

C6_Witness ==
    /\ AllSourcesFail
    /\ Exited
    /\ exit_status = "exit(1)"
    /\ Len(requests) = NumClashSources

FetchStageExits ==
    {"Failed to fetch any Clash config", "TypeError in the Clash loop"}

\* C7 as stated, on the runs in which no source answers a null node list:
\* a run that halts in the fetch stage is one in which every configured
\* source, structured-config and URI-list alike, failed.
C7_OnlyTotalFailureHalts ==
    (/\ Exited
     /\ exit_at \in FetchStageExits
     /\ \A i \in ClashSources : ~NullNodeList(i))
        => /\ \A i \in ClashSources : ClashResult(i) = None
           /\ \A j \in V2raySources : V2rayResult(j) = <<>>

\* C7, amended: a source that fails contributes nothing and the next source
\* is still fetched.  The run halts in the fetch stage exactly when every
\* Clash source failed (the V2Ray sources are then never requested), or when
\* a Clash source answers a document whose node list is null (uncaught
\* TypeError, at that source).  With a usable Clash source and no null node
\* list the run reaches the merge, and once the merged set is not empty every
\* V2Ray source is requested and the run reaches the upload, whatever the
\* V2Ray sources answer.
C7_OnlyClashFailureHalts ==
    /\ IsPrefix(requests, AllSources)
    /\ Len(requests) = clash_idx + v2ray_idx
    /\ exit_at # "TypeError in the Clash loop" =>
          clash_configs = Kept(ClashResult, clash_idx, None)
    /\ v2ray_contents = Kept(V2rayResult, v2ray_idx, <<>>)
    /\ exit_at = "Failed to fetch any Clash config" <=>
          /\ Exited
          /\ \A i \in ClashSources : ClashResult(i) = None
    /\ exit_at = "Failed to fetch any Clash config" =>
          requests = SubSeq(AllSources, 1, NumClashSources)
    /\ exit_at = "TypeError in the Clash loop" <=>
          /\ Exited
          /\ \E i \in ClashSources : NullNodeList(i)
    /\ exit_at = "TypeError in the Clash loop" =>
          /\ NullNodeList(clash_idx)
          /\ \A i \in 1..(clash_idx - 1) : ~NullNodeList(i)
    /\ (Exited /\ exit_at \notin FetchStageExits) =>
          /\ MergeRan
          /\ clash_idx = NumClashSources
    /\ (Exited /\ MergeRan /\ merged_clash.status = "returned" /\ MergedCount > 0) =>
          /\ requests = AllSources
          /\ exit_at \in {"All done", "Upload failed"}

\* a Clash source and a V2Ray source fail, and the run still uploads
C7_Witness ==
    /\ Exited
    /\ exit_at = "All done"
    /\ \E i \in ClashSources : ClashResult(i) = None
    /\ \E j \in V2raySources : V2rayResult(j) = <<>>
    /\ clash_configs # <<>>

\* C8: the run exits zero only when one publish request was sent and
\* succeeded; with an empty merged set, or with a failed publish, it exits
\* non-zero.
C8_ZeroOnlyOnFullSuccess ==
    /\ Exited <=> exit_status # "running"
    /\ exit_status = "exit(0)" <=>
          /\ Exited
          /\ Len(gist_posts) = 1
          /\ gist_posts[1].answer = "200"
    /\ exit_status = "exit(0)" => merged_clash.status = "returned" /\ MergedCount > 0
    /\ (Exited /\ MergeRan /\ merged_clash.status = "returned" /\ MergedCount = 0) =>
          /\ exit_status = "exit(1)"
          /\ gist_posts = <<>>
    /\ (Exited /\ gist_posts # <<>> /\ gist_posts[1].answer # "200") =>
          exit_status = "exit(1)"

\* the merged set is not empty and the API refuses the token
C8_Witness ==
    /\ Exited
    /\ Len(gist_posts) = 1
    /\ MergedCount > 0
    /\ gist_posts[1].answer = "401"
    /\ exit_status = "exit(1)"

SecretAbsent == GIST_PAT = <<>> \/ GIST_LINK = <<>>

\* decided by what the sources answer alone
ReachesUpload ==
    /\ \A i \in ClashSources : ~NullNodeList(i)
    /\ LET merged == merge_clash_configs(Kept(ClashResult, NumClashSources, None))
       IN  merged.status = "returned" /\ Len(merged.value.proxies) > 0

ExpectedV2ray ==
    LET cs == Kept(V2rayResult, NumV2raySources, <<>>)
    IN  IF cs # <<>> THEN merge_v2ray_subscriptions(cs) ELSE <<>>

\* C9: whatever the secrets, the run reaches the upload exactly when the
\* answers of the sources let it, having requested every source and merged
\* what they answered; with a secret absent the upload then fails without
\* sending a request, and the run exits non-zero.
C9_SecretsOnlyGatePublish ==
    /\ (pc = "upload" \/ exit_at \in {"All done", "Upload failed"}) <=>
          (pc \in {"upload", "done"} /\ ReachesUpload)
    /\ (pc = "upload" \/ exit_at \in {"All done", "Upload failed"}) =>
          /\ requests = AllSources
          /\ clash_configs = Kept(ClashResult, NumClashSources, None)
          /\ merged_clash = merge_clash_configs(clash_configs)
          /\ merged_v2ray = [status |-> "returned", value |-> ExpectedV2ray]
          /\ files["clash.yaml"] = yaml_dump(merged_clash.value)
    /\ SecretAbsent =>
          /\ gist_posts = <<>>
          /\ exit_status # "exit(0)"
          /\ (Exited /\ ReachesUpload) => exit_at = "Upload failed"

C9_Witness ==
    /\ SecretAbsent
    /\ GIST_PAT # <<>> \/ GIST_LINK # <<>>
    /\ Exited
    /\ exit_at = "Upload failed"
    /\ MergedCount > 0
    /\ DOMAIN files = {"clash.yaml", "v2ray.txt", "quantumult_x.conf"}
    /\ gist_posts = <<>>

\* C10: the requests sent so far are the first sources of the configured
\* order, each once; at most one publish request is sent, and only after
\* every source has been requested.
C10_SequentialNoRetry ==
    /\ IsPrefix(requests, AllSources)
    /\ Len(gist_posts) <= 1
    /\ gist_posts # <<>> => requests = AllSources /\ Exited

\* a fetch failed and the publish failed, and neither was repeated
C10_Witness ==
    /\ Exited
    /\ requests = AllSources
    /\ clash_source[1].kind = "timeout"
    /\ Len(gist_posts) = 1
    /\ gist_posts[1].answer = "timeout"

====

